---- MODULE Spec2Model ----
(***************************************************************************)
(* Model of the compute-unit benchmarking engine of litesvm-testing:       *)
(*   crates/litesvm-testing/src/cu_bench/runner.rs    (the two runners)    *)
(*   crates/litesvm-testing/src/cu_bench/context.rs   (context discovery)  *)
(*   crates/litesvm-testing/src/cu_bench/estimate.rs  (percentile stats)   *)
(*   crates/litesvm-testing/src/cu_bench/mod.rs       (earlier estimator)  *)
(*   crates/litesvm-testing/src/lib.rs                (error assertions)   *)
(*   crates/litesvm-testing/src/build_internal.rs     (program builds)     *)
(* The LiteSVM environment is an external collaborator; it is modelled at  *)
(* the four capabilities the runner calls: construction (setup_svm),       *)
(* simulate_transaction, send_transaction and expire_blockhash /           *)
(* latest_blockhash.                                                       *)
(***************************************************************************)
EXTENDS Integers, Sequences, FiniteSets, TLC

VARIABLES
    benchmark,        \* the benchmark definition handed to the runner
    samples,          \* the `samples: usize` argument of the runner
    pc,               \* position of the run inside the runner function
    i,                \* number of completed iterations of `for i in 0..samples`
    svm,              \* the LiteSVM instance owned by the run
    cu_measurements,  \* runner.rs: `let mut cu_measurements = Vec::new()`
    execution_context,\* Option: <<>> before discovery, <<ctx>> after
    result,           \* Option: <<>> until the runner returns, <<result>> after
    calls,            \* log of the calls made on the benchmark and on the environment
    measurements,     \* input of ComputeUnitStats::from_measurements (SpecStats)
    stats,            \* Option: outcome of from_measurements (SpecStats)
    arg,              \* argument of the function applied last (function specifications)
    ret,              \* Option: what that function returned
    builds,           \* the running invocations of build_solana_program_internal
    files             \* the build artifacts on disk, each in its target directory

vars == <<benchmark, samples, pc, i, svm, cu_measurements, execution_context,
          result, calls, measurements, stats, arg, ret, builds, files>>

runVars == <<benchmark, samples, pc, i, svm, cu_measurements, execution_context,
             result, calls>>

statVars == <<measurements, stats, arg, ret>>

buildVars == <<builds, files>>

(***************************************************************************)
(* Bounds of the model.                                                    *)
(***************************************************************************)
MaxSamples == 3
MaxSigners == 2
MaxFunds == 3
MaxInner == 1
MaxCu == 3
MaxLen == 4
MaxCustom == 2
MaxOps == 2
MaxNested == 2
MaxIndex == 2
MaxCode == 2
MaxN == 128
MaxBuilds == 2

CuValues == 1..MaxCu

(***************************************************************************)
(* Benchmark definitions: InstructionBenchmark / TransactionBenchmark      *)
(* implementations.  `signers` is the length of the signer list returned   *)
(* by build_instruction, `funds` the number of units of work the accounts  *)
(* funded by setup_svm can pay for, `mint` the keypair generation of the   *)
(* transaction benchmark (`self.mint = Keypair::new()`), `refresh` whether  *)
(* the build_transaction of a TransactionBenchmark implementation calls    *)
(* svm.expire_blockhash() before it stamps the transaction (the one in     *)
(* benches/ does; the runner accepts any implementation).                  *)
(***************************************************************************)
Benchmarks ==
    [kind : {"instruction"}, signers : 0..MaxSigners, funds : 0..MaxFunds, mint : {0},
     refresh : {TRUE}]
    \cup
    [kind : {"transaction"}, signers : {1}, funds : 0..MaxFunds, mint : {0},
     refresh : BOOLEAN]

\* A LiteSVM that has not been constructed yet (`svm` is not in scope).
NoSvm == [instance |-> 0, funds |-> 0, processed |-> {}, blockhash |-> 0, slot |-> 0]

\* The committed account state of an environment.
Committed(env) == [funds |-> env.funds, processed |-> env.processed]

\* Number of entries of the call log with operation `op`.
Count(op) == Cardinality({k \in 1..Len(calls) : calls[k].op = op})

\* One entry of the call log: the operation, the environment instance it acted
\* on, the committed state before and after it, the block reference current
\* after it, whether it succeeded, and what it returned.
Call(op, before, after, ok, out) ==
    [op |-> op, inst |-> after.instance, pre |-> Committed(before),
     post |-> Committed(after), hash |-> after.blockhash, ok |-> ok, out |-> out,
     stamp |-> <<>>, tx |-> <<>>]

\* The entry of a call that submits a unit of work: `stamp` holds the block
\* reference the transaction carries (message.recent_blockhash), `tx` the
\* transaction itself.
Submission(op, before, after, ok, out, tx) ==
    [op |-> op, inst |-> after.instance, pre |-> Committed(before),
     post |-> Committed(after), hash |-> after.blockhash, ok |-> ok, out |-> out,
     stamp |-> <<tx.recent_blockhash>>, tx |-> <<tx>>]

\* A call that returns nothing the run records.
Nothing == [cu |-> 0, inner |-> <<>>, logs |-> <<>>]

(***************************************************************************)
(* The environment's capabilities.                                         *)
(***************************************************************************)
\* benchmark.setup_svm(): LiteSVM::new() plus the airdrops that fund the run.
setup_svm(b) ==
    [instance |-> Count("setup_svm") + 1, funds |-> b.funds, processed |-> {},
     blockhash |-> 0, slot |-> 0]

\* Faulty variant: the block reference is left as it was.
expire_blockhash_skipped(env) == env

\* svm.expire_blockhash(): the latest blockhash is replaced by a new one.
expire_blockhash(env) == [env EXCEPT !.blockhash = @ + 1]

\* svm.latest_blockhash()
latest_blockhash(env) == env.blockhash

\* Faulty variant: a compute-budget operation is put in front of the work.
Transaction_with_budget(instructions, payer, hash, mint) ==
    [instructions |-> <<"ComputeBudget">> \o instructions, payer |-> payer,
     recent_blockhash |-> hash, mint |-> mint, signed |-> TRUE]

\* A signed unit of work.  `mint` distinguishes the fresh mint keypair of
\* each transaction built by a transaction benchmark.
Transaction(instructions, payer, hash, mint) ==
    [instructions |-> instructions, payer |-> payer, recent_blockhash |-> hash,
     mint |-> mint, signed |-> TRUE]

\* Whether the environment accepts a unit of work: it is signed, carries the
\* current block reference, was not processed before, and its payer is funded.
Accepts(env, tx) ==
    /\ tx.signed
    /\ tx.recent_blockhash = latest_blockhash(env)
    /\ tx \notin env.processed
    /\ env.funds >= 1

\* svm.send_transaction(tx): evaluates and commits state.
send_transaction(env, tx) ==
    IF Accepts(env, tx)
    THEN [ok |-> TRUE,
          env |-> [env EXCEPT !.funds = @ - 1, !.processed = @ \cup {tx}]]
    ELSE [ok |-> FALSE, env |-> env]

\* Faulty variant: discovery goes through the committing capability.
simulate_transaction_commits(env, tx) == send_transaction(env, tx)

\* svm.simulate_transaction(tx): evaluates without committing state.
simulate_transaction(env, tx) == [ok |-> Accepts(env, tx), env |-> env]

\* What a simulation reports besides its cost: the nested-call records (one
\* list per top-level operation that made nested calls) and the log lines.
InnerShapes == {[k \in 1..n |-> <<"Y">>] : n \in 0..MaxInner}

LogLines == {<<"invoke", "success">>}

(***************************************************************************)
(* estimate.rs: ComputeUnitStats                                           *)
(***************************************************************************)
\* Zero-based indexing of a Rust slice.
At(s, idx) == s[idx + 1]

\* Merge of two ascending sequences: every element goes to the position given
\* by its own index plus the number of elements of the other sequence that
\* come before it.
Merge(a, b) ==
    LET posA(n) == n + Cardinality({j \in 1..Len(b) : b[j] < a[n]})
        posB(n) == n + Cardinality({j \in 1..Len(a) : a[j] <= b[n]})
    IN [k \in 1..(Len(a) + Len(b)) |->
           IF \E n \in 1..Len(a) : posA(n) = k
           THEN a[CHOOSE n \in 1..Len(a) : posA(n) = k]
           ELSE b[CHOOSE n \in 1..Len(b) : posB(n) = k]] \o <<>>

\* Faulty variant: the copy is not sorted.
sort_skipped(s) == s

\* `sorted.sort_unstable()` on a Vec<u64>: ascending order (a merge sort).
RECURSIVE sort_unstable(_)
sort_unstable(s) ==
    IF Len(s) <= 1 THEN s
    ELSE LET half == Len(s) \div 2
         IN Merge(sort_unstable(SubSeq(s, 1, half)),
                  sort_unstable(SubSeq(s, half + 1, Len(s))))

\* Faulty variant: the index is taken from the length, not from length - 1.
PercentileIndexFromLen(len, P) == (len * P) \div 100

\* Faulty variant: the index is counted down from the largest sample.
PercentileIndexFromTop(len, P) == ((len - 1) * (100 - P)) \div 100

\* estimate.rs:95-98  `(len - 1) * P / 100`
PercentileIndex(len, P) == ((len - 1) * P) \div 100

\* estimate.rs:91  `sorted[0]` panics on an empty Vec.
from_measurements_panics(ms) == Len(ms) = 0

\* Faulty variant: min and unsafe_max are read from the ends of the input
\* slice instead of the sorted copy.
from_measurements_input_ends(stat_type, ms) ==
    LET sorted == sort_unstable(ms)
        len == Len(sorted)
    IN [stat_type |-> stat_type,
        min |-> At(ms, 0),
        conservative |-> At(sorted, PercentileIndex(len, 25)),
        balanced |-> At(sorted, PercentileIndex(len, 50)),
        safe |-> At(sorted, PercentileIndex(len, 75)),
        very_high |-> At(sorted, PercentileIndex(len, 95)),
        unsafe_max |-> At(ms, len - 1),
        sample_size |-> len]

\* Faulty variant: the median of an even-sized list is interpolated between
\* its two middle samples.
from_measurements_interpolated(stat_type, ms) ==
    LET sorted == sort_unstable(ms)
        len == Len(sorted)
    IN [stat_type |-> stat_type,
        min |-> At(sorted, 0),
        conservative |-> At(sorted, PercentileIndex(len, 25)),
        balanced |-> IF len % 2 = 0
                     THEN (At(sorted, len \div 2 - 1) + At(sorted, len \div 2)) \div 2
                     ELSE At(sorted, PercentileIndex(len, 50)),
        safe |-> At(sorted, PercentileIndex(len, 75)),
        very_high |-> At(sorted, PercentileIndex(len, 95)),
        unsafe_max |-> At(sorted, len - 1),
        sample_size |-> len]

\* estimate.rs:86-110  ComputeUnitStats::from_measurements (non-empty input)
from_measurements(stat_type, ms) ==
    LET sorted == sort_unstable(ms)
        len == Len(sorted)
    IN [stat_type |-> stat_type,
        min |-> At(sorted, 0),
        conservative |-> At(sorted, PercentileIndex(len, 25)),
        balanced |-> At(sorted, PercentileIndex(len, 50)),
        safe |-> At(sorted, PercentileIndex(len, 75)),
        very_high |-> At(sorted, PercentileIndex(len, 95)),
        unsafe_max |-> At(sorted, len - 1),
        sample_size |-> len]

\* The percentiles both estimators read: conservative, balanced, safe, very_high.
Percentiles == {25, 50, 75, 95}

\* Faulty variant: the earlier estimator indexes like the later one.
EstimateIndexFromLenMinusOne(len, P) == ((len - 1) * P) \div 100

\* Faulty variant: the index is rounded up.
EstimateIndexRoundedUp(len, P) == (len * P + 99) \div 100

\* mod.rs:159-162  `len * P / 100`
EstimateIndex(len, P) == (len * P) \div 100

\* mod.rs:155-162  `sorted[0]` panics on an empty Vec, and so does every
\* `sorted[index]` whose index is not below the length.
ComputeUnitEstimate_from_measurements_panics(ms) ==
    \/ Len(ms) = 0
    \/ \E P \in Percentiles : EstimateIndex(Len(ms), P) >= Len(ms)

\* mod.rs:146-175  ComputeUnitEstimate::from_measurements (where it returns)
ComputeUnitEstimate_from_measurements(instruction_type, ms, environments) ==
    LET sorted == sort_unstable(ms)
        len == Len(sorted)
    IN [instruction_type |-> instruction_type,
        min |-> At(sorted, 0),
        conservative |-> At(sorted, EstimateIndex(len, 25)),
        balanced |-> At(sorted, EstimateIndex(len, 50)),
        safe |-> At(sorted, EstimateIndex(len, 75)),
        very_high |-> At(sorted, EstimateIndex(len, 95)),
        unsafe_max |-> At(sorted, len - 1),
        sample_size |-> len,
        environments |-> environments]

\* Number of significand bits of an f32 (estimate.rs:81 `as f32`).
MantissaBits == 24

RECURSIVE Pow2(_)
Pow2(e) == IF e = 0 THEN 1 ELSE 2 * Pow2(e - 1)

\* Number of low bits an integer loses when it is stored in an f32.
RECURSIVE DroppedBits(_)
DroppedBits(n) == IF n < Pow2(MantissaBits) THEN 0 ELSE 1 + DroppedBits(n \div 2)

\* The f32 nearest to the integer n (round half to even), as an integer.
RoundToF32(n) ==
    LET e == DroppedBits(n)
        q == n \div Pow2(e)
        r == n % Pow2(e)
        up == 2 * r > Pow2(e) \/ (2 * r = Pow2(e) /\ q % 2 = 1)
    IN (IF up THEN q + 1 ELSE q) * Pow2(e)

\* estimate.rs:81  `(self.balanced as f32 * mult) as u64`.  The f32 `mult` is
\* <<n, s>>, standing for n / 2^s; the product is rounded to an f32 and the
\* cast truncates toward zero.
multiply_balanced(balanced, mult) ==
    RoundToF32(RoundToF32(balanced) * mult[1]) \div Pow2(mult[2])

\* Faulty variant: a custom value is clamped to the largest observed sample.
get_cu_for_level_clamped(self, level) ==
    CASE level.kind = "Min" -> self.min
      [] level.kind = "Conservative" -> self.conservative
      [] level.kind = "Balanced" -> self.balanced
      [] level.kind = "Safe" -> self.safe
      [] level.kind = "VeryHigh" -> self.very_high
      [] level.kind = "UnsafeMax" -> self.unsafe_max
      [] level.kind = "Custom" ->
             IF level.cu > self.unsafe_max THEN self.unsafe_max ELSE level.cu
      [] level.kind = "Multiplier" -> multiply_balanced(self.balanced, level.mult)

\* estimate.rs:72-83  ComputeUnitStats::get_cu_for_level
get_cu_for_level(self, level) ==
    CASE level.kind = "Min" -> self.min
      [] level.kind = "Conservative" -> self.conservative
      [] level.kind = "Balanced" -> self.balanced
      [] level.kind = "Safe" -> self.safe
      [] level.kind = "VeryHigh" -> self.very_high
      [] level.kind = "UnsafeMax" -> self.unsafe_max
      [] level.kind = "Custom" -> level.cu
      [] level.kind = "Multiplier" -> multiply_balanced(self.balanced, level.mult)

(***************************************************************************)
(* context.rs: context discovery                                           *)
(***************************************************************************)
\* The benchmark's address book: program identifier -> label.
address_book(b) == [p \in {"X"} |-> "program_x"]

\* Pubkey::to_string(): the canonical (base58) text of an identifier.
pubkey_to_string(program_id) == "base58_" \o program_id

\* Faulty variant: resolution insists on an address-book entry (`.unwrap()`).
lookup_requires_entry(program_id, book) == program_id \notin DOMAIN book

\* context.rs:125-130  `unwrap_or_else(|| program_id.to_string())` has a value
\* for every identifier: resolution does not panic.
lookup_program_name_panics(program_id, book) == FALSE

\* context.rs:125-130  lookup_program_name
lookup_program_name(program_id, book) ==
    IF program_id \in DOMAIN book THEN book[program_id] ELSE pubkey_to_string(program_id)

\* context.rs:103-116  extract_program_context
extract_program_context(tx, sim, book) ==
    [program_id |-> At(tx.instructions, 0),
     program_name |-> lookup_program_name(At(tx.instructions, 0), book),
     cpi_count |-> Len(sim.inner)]

\* context.rs:118-123  extract_execution_stats
extract_execution_stats(sim) == [logs |-> sim.logs, simulated_cu |-> sim.cu]

\* context.rs:94-97 / 146-149  SVMContext read back from the environment
svm_context(env) == [current_slot |-> env.slot, latest_blockhash |-> latest_blockhash(env)]


RECURSIVE Flatten(_)
Flatten(ss) == IF ss = <<>> THEN <<>> ELSE Head(ss) \o Flatten(Tail(ss))

\* Faulty variant: a nested entry is appended without its marker.
cpi_name_unmarked(name) == name

\* format!("{}_cpi", program_name)
cpi_name(name) == name \o "_cpi"

\* Faulty variant: nested calls are listed but not counted.
extract_workflow_context_direct_usage(tx, sim, workflow_name, book) ==
    LET top == tx.instructions
        nested == Flatten(sim.inner)
        invoked == top \o nested
        usage(p) == Cardinality({k \in 1..Len(top) : top[k] = p})
        programs == {invoked[k] : k \in 1..Len(invoked)}
    IN [workflow_name |-> workflow_name,
        involved_programs |->
            {[program_id |-> p, program_name |-> lookup_program_name(p, book),
              instruction_count |-> usage(p)] : p \in programs},
        cpi_sequence |->
            [k \in 1..Len(top) |-> lookup_program_name(top[k], book)]
            \o [k \in 1..Len(nested) |-> cpi_name(lookup_program_name(nested[k], book))],
        total_cpi_calls |-> Len(sim.inner)]

\* Faulty variant: only the first top-level operation is counted and listed.
extract_workflow_context_first_only(tx, sim, workflow_name, book) ==
    LET top == SubSeq(tx.instructions, 1, 1)
        nested == Flatten(sim.inner)
        invoked == top \o nested
        usage(p) == Cardinality({k \in 1..Len(invoked) : invoked[k] = p})
        programs == {invoked[k] : k \in 1..Len(invoked)}
    IN [workflow_name |-> workflow_name,
        involved_programs |->
            {[program_id |-> p, program_name |-> lookup_program_name(p, book),
              instruction_count |-> usage(p)] : p \in programs},
        cpi_sequence |->
            [k \in 1..Len(top) |-> lookup_program_name(top[k], book)]
            \o [k \in 1..Len(nested) |-> cpi_name(lookup_program_name(nested[k], book))],
        total_cpi_calls |-> Len(sim.inner)]

\* context.rs:156-203  extract_workflow_context.  `involved_programs` is
\* collected from a HashMap, whose iteration order is unspecified: it is
\* modelled as the set of its ProgramInfo entries.
extract_workflow_context(tx, sim, workflow_name, book) ==
    LET top == tx.instructions
        nested == Flatten(sim.inner)
        invoked == top \o nested
        usage(p) == Cardinality({k \in 1..Len(invoked) : invoked[k] = p})
        programs == {invoked[k] : k \in 1..Len(invoked)}
    IN [workflow_name |-> workflow_name,
        involved_programs |->
            {[program_id |-> p, program_name |-> lookup_program_name(p, book),
              instruction_count |-> usage(p)] : p \in programs},
        cpi_sequence |->
            [k \in 1..Len(top) |-> lookup_program_name(top[k], book)]
            \o [k \in 1..Len(nested) |-> cpi_name(lookup_program_name(nested[k], book))],
        total_cpi_calls |-> Len(sim.inner)]

(***************************************************************************)
(* The benchmark's own operations (benches/*.rs).                          *)
(***************************************************************************)
\* InstructionBenchmark::build_instruction: the target instruction and the
\* signer list; it leaves the environment alone.
build_instruction(b) == [target_ix |-> "X", signer_pubkeys |-> [k \in 1..b.signers |-> k]]

\* TransactionBenchmark::build_transaction: a fresh mint keypair, a refreshed
\* block reference (where the implementation refreshes it), and the signed
\* multi-operation transaction stamped with the latest block reference.
build_transaction(b, env) ==
    LET b1 == [b EXCEPT !.mint = @ + 1]
        env1 == IF b.refresh THEN expire_blockhash(env) ELSE env
    IN [benchmark |-> b1, env |-> env1,
        tx |-> Transaction(<<"X", "Y">>, 1, latest_blockhash(env1), b1.mint)]

\* instruction_name() / transaction_name()
benchmark_name(b) == IF b.kind = "instruction" THEN "sol_transfer" ELSE "token_setup_complete"

(***************************************************************************)
(* runner.rs                                                               *)
(***************************************************************************)
\* Faulty variant: a failed simulation is swallowed and the run goes on.
AfterSimulateErrorIgnored == "ContextDiscovered"

\* `.unwrap()` on a failed simulation panics: the run is over.
AfterSimulateError == "Failed"

\* Faulty variant: a failed pass is swallowed and the loop tries again.
AfterExecuteErrorRetry == "Measuring"

\* `.unwrap()` on a failed execution panics: the run is over.
AfterExecuteError == "Failed"

\* Faulty variant: the measurement loop does not wait for discovery.
LoopContinuesBeforeDiscovery ==
    pc \in {"EnvironmentReady", "ContextDiscovered", "Measuring"} /\ i < samples

\* Faulty variant: `for i in 0..=samples`.
LoopContinuesInclusive == pc \in {"ContextDiscovered", "Measuring"} /\ i <= samples

\* runner.rs:36 / runner.rs:75  `for i in 0..samples`, entered after discovery.
LoopContinues == pc \in {"ContextDiscovered", "Measuring"} /\ i < samples

LoopExits == pc \in {"ContextDiscovered", "Measuring"} /\ i >= samples

\* Faulty variant: the sample is put in front of the earlier ones.
push_front(ms, cu_used) == <<cu_used>> \o ms

\* runner.rs:38 / runner.rs:78  `cu_measurements.push(cu_used)`
push(ms, cu_used) == Append(ms, cu_used)

\* Faulty variant: the reported context takes its cost from the last
\* measurement pass instead of the simulation.
InstructionBenchmarkResultFromSamples(b, ms, ctx) ==
    [instruction_name |-> benchmark_name(b),
     cu_estimate |-> from_measurements(<<"instruction", benchmark_name(b)>>, ms),
     execution_context |-> [ctx EXCEPT !.execution_stats.simulated_cu = ms[Len(ms)]],
     generated_by |-> "litesvm-testing"]

\* runner.rs:46-55  InstructionBenchmarkResult { .. }
InstructionBenchmarkResult(b, ms, ctx) ==
    [instruction_name |-> benchmark_name(b),
     cu_estimate |-> from_measurements(<<"instruction", benchmark_name(b)>>, ms),
     execution_context |-> ctx,
     generated_by |-> "litesvm-testing"]

\* runner.rs:86-95  TransactionBenchmarkResult { .. }
TransactionBenchmarkResult(b, ms, ctx) ==
    [transaction_name |-> benchmark_name(b),
     cu_estimate |-> from_measurements(<<"transaction", benchmark_name(b)>>, ms),
     execution_context |-> ctx,
     generated_by |-> "litesvm-testing"]


Init ==
    /\ benchmark \in Benchmarks
    /\ samples \in 0..MaxSamples
    /\ pc = "Uninitialized"
    /\ i = 0
    /\ svm = NoSvm
    /\ cu_measurements = <<>>
    /\ execution_context = <<>>
    /\ result = <<>>
    /\ calls = <<>>
    /\ builds = <<>>
    /\ files = {}
    /\ measurements = <<>>
    /\ stats = <<>>
    /\ arg = <<>>
    /\ ret = <<>>

\* Faulty variant: every pass runs on a freshly constructed environment.
MeasurementEnvFresh == setup_svm(benchmark)

\* The environment the measurement loop hands to each pass: `&mut svm`, the
\* instance created by setup_svm (runner.rs:37 / runner.rs:76-77).
MeasurementEnv == svm

\* runner.rs:29 / runner.rs:64  `let mut svm = benchmark.setup_svm();`
SetupSvm ==
    /\ pc = "Uninitialized"
    /\ svm' = setup_svm(benchmark)
    /\ calls' = Append(calls, Call("setup_svm", setup_svm(benchmark), setup_svm(benchmark),
                                   TRUE, Nothing))
    /\ pc' = "EnvironmentReady"
    /\ UNCHANGED <<benchmark, samples, i, cu_measurements, execution_context, result>>
    /\ UNCHANGED statVars
    /\ UNCHANGED buildVars

\* runner.rs:32 with context.rs:75-101  discover_instruction_context
DiscoverInstructionContext ==
    /\ pc = "EnvironmentReady"
    /\ benchmark.kind = "instruction"
    /\ \E cu \in CuValues, inner \in InnerShapes, logs \in LogLines :
         LET built == build_instruction(benchmark)
             env1 == expire_blockhash(svm)
             prefix == calls \o <<Call("build_instruction", svm, svm, TRUE, Nothing),
                                  Call("expire_blockhash", svm, env1, TRUE, Nothing)>>
         IN IF Len(built.signer_pubkeys) = 0
            THEN \* `signer_pubkeys[0]` panics
                 /\ svm' = env1
                 /\ calls' = prefix
                 /\ pc' = "Failed"
                 /\ UNCHANGED execution_context
            ELSE LET tx == Transaction(<<built.target_ix>>, At(built.signer_pubkeys, 0),
                                       latest_blockhash(env1), 0)
                     simulation == simulate_transaction(env1, tx)
                     sim == IF simulation.ok
                            THEN [cu |-> cu, inner |-> inner, logs |-> logs]
                            ELSE Nothing
                 IN /\ svm' = simulation.env
                    /\ calls' = Append(prefix, Submission("simulate_transaction", env1,
                                                          simulation.env, simulation.ok,
                                                          sim, tx))
                    /\ IF ~simulation.ok
                       THEN /\ pc' = AfterSimulateError
                            /\ UNCHANGED execution_context
                       ELSE /\ execution_context' =
                                 <<[svm_context |-> svm_context(simulation.env),
                                    program_context |->
                                        extract_program_context(tx, sim, address_book(benchmark)),
                                    execution_stats |-> extract_execution_stats(sim)]>>
                            /\ pc' = "ContextDiscovered"
    /\ UNCHANGED <<benchmark, samples, i, cu_measurements, result>>
    /\ UNCHANGED statVars
    /\ UNCHANGED buildVars

\* runner.rs:67-71 with context.rs:133-154  discover_transaction_context
DiscoverTransactionContext ==
    /\ pc = "EnvironmentReady"
    /\ benchmark.kind = "transaction"
    /\ \E cu \in CuValues, inner \in InnerShapes, logs \in LogLines :
         LET built == build_transaction(benchmark, svm)
             simulation == simulate_transaction(built.env, built.tx)
             sim == IF simulation.ok
                    THEN [cu |-> cu, inner |-> inner, logs |-> logs]
                    ELSE Nothing
         IN /\ benchmark' = built.benchmark
            /\ svm' = simulation.env
            /\ calls' = calls \o <<Call("build_transaction", svm, built.env, TRUE, Nothing),
                                   Submission("simulate_transaction", built.env,
                                              simulation.env, simulation.ok, sim,
                                              built.tx)>>
            /\ IF ~simulation.ok
               THEN /\ pc' = AfterSimulateError
                    /\ UNCHANGED execution_context
               ELSE /\ execution_context' =
                         <<[svm_context |-> svm_context(simulation.env),
                            workflow_context |->
                                extract_workflow_context(built.tx, sim,
                                    benchmark_name(benchmark), address_book(benchmark)),
                            execution_stats |-> extract_execution_stats(sim)]>>
                    /\ pc' = "ContextDiscovered"
    /\ UNCHANGED <<samples, i, cu_measurements, result>>
    /\ UNCHANGED statVars
    /\ UNCHANGED buildVars

\* runner.rs:36-43 with runner.rs:106-124  one pass of measure_instruction
MeasureInstruction ==
    /\ LoopContinues
    /\ benchmark.kind = "instruction"
    /\ \E cu_used \in CuValues :
         LET env0 == MeasurementEnv
             built == build_instruction(benchmark)
             env1 == expire_blockhash(env0)
             prefix == calls \o <<Call("build_instruction", env0, env0, TRUE, Nothing),
                                  Call("expire_blockhash", env0, env1, TRUE, Nothing)>>
         IN IF Len(built.signer_pubkeys) = 0
            THEN \* `signer_pubkeys[0]` panics
                 /\ svm' = env1
                 /\ calls' = prefix
                 /\ pc' = "Failed"
                 /\ UNCHANGED <<i, cu_measurements>>
            ELSE LET tx == Transaction(<<built.target_ix>>, At(built.signer_pubkeys, 0),
                                       latest_blockhash(env1), 0)
                     sent == send_transaction(env1, tx)
                     out == IF sent.ok THEN [Nothing EXCEPT !.cu = cu_used] ELSE Nothing
                 IN /\ svm' = sent.env
                    /\ calls' = Append(prefix, Submission("send_transaction", env1, sent.env,
                                                          sent.ok, out, tx))
                    /\ IF ~sent.ok
                       THEN /\ pc' = AfterExecuteError
                            /\ UNCHANGED <<i, cu_measurements>>
                       ELSE /\ cu_measurements' = push(cu_measurements, cu_used)
                            /\ i' = i + 1
                            /\ pc' = "Measuring"
    /\ UNCHANGED <<benchmark, samples, execution_context, result>>
    /\ UNCHANGED statVars
    /\ UNCHANGED buildVars

\* runner.rs:75-83 with runner.rs:99-103  one pass of measure_transaction_cu
MeasureTransaction ==
    /\ LoopContinues
    /\ benchmark.kind = "transaction"
    /\ \E cu_used \in CuValues :
         LET env0 == MeasurementEnv
             built == build_transaction(benchmark, env0)
             sent == send_transaction(built.env, built.tx)
             out == IF sent.ok THEN [Nothing EXCEPT !.cu = cu_used] ELSE Nothing
         IN /\ benchmark' = built.benchmark
            /\ svm' = sent.env
            /\ calls' = calls \o <<Call("build_transaction", env0, built.env, TRUE, Nothing),
                                   Submission("send_transaction", built.env, sent.env,
                                              sent.ok, out, built.tx)>>
            /\ IF ~sent.ok
               THEN /\ pc' = AfterExecuteError
                    /\ UNCHANGED <<i, cu_measurements>>
               ELSE /\ cu_measurements' = push(cu_measurements, cu_used)
                    /\ i' = i + 1
                    /\ pc' = "Measuring"
    /\ UNCHANGED <<samples, execution_context, result>>
    /\ UNCHANGED statVars
    /\ UNCHANGED buildVars

\* runner.rs:46-55 / runner.rs:86-95  the result record is built and returned;
\* from_measurements panics on an empty sample list.
ReturnResult ==
    /\ LoopExits
    /\ IF from_measurements_panics(cu_measurements)
       THEN /\ pc' = "Failed"
            /\ UNCHANGED result
       ELSE /\ result' = <<IF benchmark.kind = "instruction"
                           THEN InstructionBenchmarkResult(benchmark, cu_measurements,
                                                           execution_context[1])
                           ELSE TransactionBenchmarkResult(benchmark, cu_measurements,
                                                           execution_context[1])>>
            /\ pc' = "Completed"
    /\ UNCHANGED <<benchmark, samples, i, svm, cu_measurements, execution_context, calls>>
    /\ UNCHANGED statVars
    /\ UNCHANGED buildVars

Next ==
    \/ SetupSvm
    \/ DiscoverInstructionContext
    \/ DiscoverTransactionContext
    \/ MeasureInstruction
    \/ MeasureTransaction
    \/ ReturnResult

Spec == Init /\ [][Next]_vars
(***************************************************************************)
(* The percentile estimator on its own (specification SpecStats): the      *)
(* sample list is drawn from the bounded lists and from the lists of the   *)
(* unit tests of estimate.rs, and from_measurements is applied to it.      *)
(***************************************************************************)
\* estimate.rs:151-323  the sample lists of the unit tests
TestVectors ==
    {[k \in 1..100 |-> k],
     <<10, 20, 30, 40>>,
     <<42>>,
     <<5, 5, 5, 10, 10, 15, 20, 20, 20, 20>>,
     <<100, 10, 50, 30, 80, 20, 90, 40, 70, 60>>,
     <<100, 200, 300>>,
     <<10, 20, 30, 40, 50>>}

\* A sample beyond the integers an f32 holds exactly (u64 input range).
WideSamples == {<<Pow2(MantissaBits) + 1>>}

SampleLists ==
    UNION {[1..n -> CuValues] : n \in 0..MaxLen} \cup TestVectors \cup WideSamples

\* estimate.rs:29-46  ComputeUnitLevel.  A multiplier <<n, s>> is the f32 n / 2^s:
\* 0.0, 0.5, 1.0, 1.5, 2.0.
NamedLevels == {"Min", "Conservative", "Balanced", "Safe", "VeryHigh", "UnsafeMax"}

Multipliers == {<<0, 0>>, <<1, 1>>, <<1, 0>>, <<3, 1>>, <<2, 0>>}

Levels ==
    [kind : NamedLevels, cu : {0}, mult : {<<0, 0>>}]
    \cup [kind : {"Custom"}, cu : 0..MaxCustom \cup {999}, mult : {<<0, 0>>}]
    \cup [kind : {"Multiplier"}, cu : {0}, mult : Multipliers]

InitStats ==
    /\ measurements \in SampleLists
    /\ stats = <<>>
    /\ arg = <<>>
    /\ ret = <<>>
    /\ benchmark = [kind |-> "instruction", signers |-> 1, funds |-> 0, mint |-> 0,
                    refresh |-> TRUE]
    /\ samples = 0
    /\ pc = "Uninitialized"
    /\ i = 0
    /\ svm = NoSvm
    /\ cu_measurements = <<>>
    /\ execution_context = <<>>
    /\ result = <<>>
    /\ calls = <<>>
    /\ builds = <<>>
    /\ files = {}

\* estimate.rs:86-110  a call of ComputeUnitStats::from_measurements
FromMeasurements ==
    /\ stats = <<>>
    /\ stats' = IF from_measurements_panics(measurements)
                THEN <<[panicked |-> TRUE]>>
                ELSE <<[panicked |-> FALSE,
                        value |-> from_measurements(<<"instruction", "test">>, measurements)]>>
    /\ UNCHANGED <<measurements, arg, ret>>
    /\ UNCHANGED runVars
    /\ UNCHANGED buildVars

\* estimate.rs:72-83  a call of get_cu_for_level on the statistics record
GetCuForLevel ==
    /\ stats # <<>>
    /\ ~stats[1].panicked
    /\ ret = <<>>
    /\ \E level \in Levels :
          /\ arg' = level
          /\ ret' = <<get_cu_for_level(stats[1].value, level)>>
    /\ UNCHANGED <<measurements, stats>>
    /\ UNCHANGED runVars
    /\ UNCHANGED buildVars

\* mod.rs:146-175  a call of ComputeUnitEstimate::from_measurements on the
\* same samples
EstimateFromMeasurements ==
    /\ ret = <<>>
    /\ arg' = [kind |-> "from_measurements", cu |-> 0, mult |-> <<0, 0>>]
    /\ ret' = IF ComputeUnitEstimate_from_measurements_panics(measurements)
              THEN <<[panicked |-> TRUE]>>
              ELSE <<[panicked |-> FALSE,
                      value |-> ComputeUnitEstimate_from_measurements(
                                    "test", measurements, <<"litesvm">>)]>>
    /\ UNCHANGED <<measurements, stats>>
    /\ UNCHANGED runVars
    /\ UNCHANGED buildVars

NextStats ==
    \/ FromMeasurements
    \/ GetCuForLevel
    \/ EstimateFromMeasurements

SpecStats == InitStats /\ [][NextStats]_vars

(***************************************************************************)
(* SpecContext: the context extractors of context.rs as pure functions of  *)
(* a transaction, a simulation result and an address book.                 *)
(***************************************************************************)
Programs == {"X", "Y", "Z"}

\* The labels a caller may give to programs; an address book labels any
\* subset of them (HashMap<Pubkey, String>, possibly empty).
BookLabel == [p \in Programs |-> "program_" \o p]

AddressBooks == {[p \in D |-> BookLabel[p]] : D \in SUBSET Programs}

\* transaction.message.instructions: the program each top-level operation
\* addresses, in order.
InstructionLists == UNION {[1..n -> Programs] : n \in 1..MaxOps}

\* simulation.meta.inner_instructions: lists of nested calls, at most one
\* list per top-level operation and MaxNested nested calls in all.
InnerSets == UNION {[1..n -> {"Y", "Z"}] : n \in 0..MaxNested}

InnerLists ==
    {inner \in UNION {[1..n -> InnerSets] : n \in 0..MaxOps} :
        Len(Flatten(inner)) <= MaxNested}

InitContext ==
    /\ arg \in [instructions : InstructionLists, inner : InnerLists, book : AddressBooks]
    /\ Len(arg.inner) <= Len(arg.instructions)
    /\ ret = <<>>
    /\ measurements = <<>>
    /\ stats = <<>>
    /\ benchmark = [kind |-> "instruction", signers |-> 1, funds |-> 0, mint |-> 0,
                    refresh |-> TRUE]
    /\ samples = 0
    /\ pc = "Uninitialized"
    /\ i = 0
    /\ svm = NoSvm
    /\ cu_measurements = <<>>
    /\ execution_context = <<>>
    /\ result = <<>>
    /\ calls = <<>>
    /\ builds = <<>>
    /\ files = {}

\* The programs a transaction and its simulation invoke.
Invoked(a) == {a.instructions[k] : k \in 1..Len(a.instructions)}
              \cup {Flatten(a.inner)[k] : k \in 1..Len(Flatten(a.inner))}

\* context.rs:125-130  a call of lookup_program_name
LookupProgramName ==
    /\ ret = <<>>
    /\ \E program_id \in Programs :
          ret' = <<[op |-> "lookup", program_id |-> program_id,
                    panicked |-> lookup_program_name_panics(program_id, arg.book),
                    value |-> lookup_program_name(program_id, arg.book)]>>
    /\ UNCHANGED <<measurements, stats, arg>>
    /\ UNCHANGED runVars
    /\ UNCHANGED buildVars

\* context.rs:103-116  a call of extract_program_context (instruction mode:
\* the transaction holds the one target instruction)
ExtractProgramContext ==
    /\ ret = <<>>
    /\ Len(arg.instructions) = 1
    /\ ret' = <<[op |-> "program", program_id |-> At(arg.instructions, 0),
                 panicked |-> lookup_program_name_panics(At(arg.instructions, 0), arg.book),
                 value |-> extract_program_context([instructions |-> arg.instructions],
                                                   [inner |-> arg.inner], arg.book)]>>
    /\ UNCHANGED <<measurements, stats, arg>>
    /\ UNCHANGED runVars
    /\ UNCHANGED buildVars

\* context.rs:156-203  a call of extract_workflow_context
ExtractWorkflowContext ==
    /\ ret = <<>>
    /\ ret' = <<[op |-> "workflow", program_id |-> At(arg.instructions, 0),
                 panicked |-> \E p \in Invoked(arg) : lookup_program_name_panics(p, arg.book),
                 value |-> extract_workflow_context([instructions |-> arg.instructions],
                                                    [inner |-> arg.inner], "workflow",
                                                    arg.book)]>>
    /\ UNCHANGED <<measurements, stats, arg>>
    /\ UNCHANGED runVars
    /\ UNCHANGED buildVars

\* context.rs:118-123  a call of extract_execution_stats on a simulation result
ExtractExecutionStats ==
    /\ ret = <<>>
    /\ \E cu \in CuValues, logs \in LogLines :
          LET sim == [cu |-> cu, inner |-> arg.inner, logs |-> logs]
          IN ret' = <<[op |-> "stats", program_id |-> At(arg.instructions, 0),
                       panicked |-> FALSE, sim |-> sim,
                       value |-> extract_execution_stats(sim)]>>
    /\ UNCHANGED <<measurements, stats, arg>>
    /\ UNCHANGED runVars
    /\ UNCHANGED buildVars

NextContext ==
    \/ LookupProgramName
    \/ ExtractProgramContext
    \/ ExtractWorkflowContext
    \/ ExtractExecutionStats

SpecContext == InitContext /\ [][NextContext]_vars

(***************************************************************************)
(* SpecDemand: the instruction-error assertions of lib.rs as functions of  *)
(* a transaction result.  Each either returns or panics with a message.    *)
(***************************************************************************)
\* InstructionError values: Custom(code) and a variant without payload.
InstructionErrors ==
    [variant : {"Custom"}, code : 0..MaxCode]
    \cup [variant : {"InvalidArgument"}, code : {0}]

\* TransactionError values: InstructionError(index, error) and variants that
\* are not instruction errors.
TransactionErrors ==
    [variant : {"InstructionError"}, index : 0..MaxIndex, error : InstructionErrors]
    \cup [variant : {"AlreadyProcessed", "InsufficientFundsForFee"}, index : {0},
          error : {[variant |-> "InvalidArgument", code |-> 0]}]

\* TransactionResult: Ok(meta), or Err(e) with e.err a TransactionError.
TransactionResults ==
    [ok : {TRUE}, err : {[variant |-> "AlreadyProcessed", index |-> 0,
                           error |-> [variant |-> "InvalidArgument", code |-> 0]]}]
    \cup [ok : {FALSE}, err : TransactionErrors]

\* lib.rs:349-361  demand_instruction_error
demand_instruction_error(expected_error, tx_result) ==
    IF tx_result.ok THEN "panic: transaction succeeded"
    ELSE IF tx_result.err.variant # "InstructionError" THEN "panic: not an instruction error"
    ELSE IF tx_result.err.error # expected_error THEN "panic: different error"
    ELSE "returns"

\* Faulty variant: the index of the failing instruction is not compared.
demand_instruction_error_at_index_unchecked(expected_index, expected_error, tx_result) ==
    demand_instruction_error(expected_error, tx_result)

\* lib.rs:395-427  demand_instruction_error_at_index
demand_instruction_error_at_index(expected_index, expected_error, tx_result) ==
    IF tx_result.ok THEN "panic: transaction succeeded"
    ELSE IF tx_result.err.variant # "InstructionError" THEN "panic: not an instruction error"
    ELSE IF tx_result.err.index # expected_index THEN "panic: different index"
    ELSE IF tx_result.err.error # expected_error THEN "panic: different error"
    ELSE "returns"

InitDemand ==
    /\ arg \in [expected_index : 0..MaxIndex, expected_error : InstructionErrors,
                result : TransactionResults]
    /\ ret = <<>>
    /\ measurements = <<>>
    /\ stats = <<>>
    /\ benchmark = [kind |-> "instruction", signers |-> 1, funds |-> 0, mint |-> 0,
                    refresh |-> TRUE]
    /\ samples = 0
    /\ pc = "Uninitialized"
    /\ i = 0
    /\ svm = NoSvm
    /\ cu_measurements = <<>>
    /\ execution_context = <<>>
    /\ result = <<>>
    /\ calls = <<>>
    /\ builds = <<>>
    /\ files = {}

\* lib.rs:349-361  a call of demand_instruction_error
DemandInstructionError ==
    /\ ret = <<>>
    /\ ret' = <<[op |-> "anywhere",
                 outcome |-> demand_instruction_error(arg.expected_error, arg.result)]>>
    /\ UNCHANGED <<measurements, stats, arg>>
    /\ UNCHANGED runVars
    /\ UNCHANGED buildVars

\* lib.rs:395-427  a call of demand_instruction_error_at_index
DemandInstructionErrorAtIndex ==
    /\ ret = <<>>
    /\ ret' = <<[op |-> "at_index",
                 outcome |-> demand_instruction_error_at_index(
                                 arg.expected_index, arg.expected_error, arg.result)]>>
    /\ UNCHANGED <<measurements, stats, arg>>
    /\ UNCHANGED runVars
    /\ UNCHANGED buildVars

NextDemand ==
    \/ DemandInstructionError
    \/ DemandInstructionErrorAtIndex

SpecDemand == InitDemand /\ [][NextDemand]_vars

(***************************************************************************)
(* SpecBuild: concurrent invocations of build_solana_program_internal      *)
(* (build_internal.rs), one per build script.  Every invocation runs in    *)
(* its own process; the processes share the file system and interleave at  *)
(* the commands they run on it.                                            *)
(***************************************************************************)
\* Program directories handed to the build helpers, as path components.
ProgramPaths == {<<"anchor", "counter">>, <<"pinocchio", "counter">>, <<"anchor", "vault">>}

\* build_internal.rs:30-33  CARGO_TARGET_DIR of the process, or the default
\* under the system's temporary directory.
BaseTargetDirs == {<<"target">>, <<"tmp", "litesvm-builds">>}

\* build_internal.rs:24-28  program_path.file_name(): the last component.
program_name(program_path) == program_path[Len(program_path)]

\* build_internal.rs:35  base_target_dir.join(format!("program-{}", program_name))
temp_dir_of(base_target_dir, program_path) ==
    base_target_dir \o <<"program-" \o program_name(program_path)>>

\* The .so file a build of a program leaves in a target directory.
Artifact(dir, program_path) == [dir |-> dir, so |-> program_path]

InitBuild ==
    /\ builds \in [1..MaxBuilds -> [program_path : ProgramPaths,
                                    base_target_dir : BaseTargetDirs,
                                    pc : {"start"}, temp_dir : {<<>>}, copied : {{}}]]
    /\ \A p, q \in 1..MaxBuilds : p # q => builds[p].program_path # builds[q].program_path
    /\ files = {}
    /\ arg = <<>>
    /\ ret = <<>>
    /\ measurements = <<>>
    /\ stats = <<>>
    /\ benchmark = [kind |-> "instruction", signers |-> 1, funds |-> 0, mint |-> 0,
                    refresh |-> TRUE]
    /\ samples = 0
    /\ pc = "Uninitialized"
    /\ i = 0
    /\ svm = NoSvm
    /\ cu_measurements = <<>>
    /\ execution_context = <<>>
    /\ result = <<>>
    /\ calls = <<>>

\* build_internal.rs:30-40  the working directory is chosen and created
CreateBuildDir ==
    /\ \E p \in DOMAIN builds :
          /\ builds[p].pc = "start"
          /\ builds' = [builds EXCEPT
                           ![p].temp_dir = temp_dir_of(builds[p].base_target_dir,
                                                       builds[p].program_path),
                           ![p].pc = "created"]
    /\ UNCHANGED files
    /\ UNCHANGED runVars
    /\ UNCHANGED statVars

\* build_internal.rs:44-67  `cargo clean` with CARGO_TARGET_DIR = temp_dir
\* empties that directory; a failing command ends the process.
CargoClean ==
    /\ \E p \in DOMAIN builds, ok \in BOOLEAN :
          /\ builds[p].pc = "created"
          /\ IF ok
             THEN /\ files' = {f \in files : f.dir # builds[p].temp_dir}
                  /\ builds' = [builds EXCEPT ![p].pc = "cleaned"]
             ELSE /\ builds' = [builds EXCEPT ![p].pc = "exit"]
                  /\ UNCHANGED files
    /\ UNCHANGED runVars
    /\ UNCHANGED statVars

\* build_internal.rs:70-95  `cargo build-sbf` with CARGO_TARGET_DIR = temp_dir
\* writes the program's .so file there.
CargoBuildSbf ==
    /\ \E p \in DOMAIN builds, ok \in BOOLEAN :
          /\ builds[p].pc = "cleaned"
          /\ IF ok
             THEN /\ files' = files \cup {Artifact(builds[p].temp_dir,
                                                   builds[p].program_path)}
                  /\ builds' = [builds EXCEPT ![p].pc = "built"]
             ELSE /\ builds' = [builds EXCEPT ![p].pc = "exit"]
                  /\ UNCHANGED files
    /\ UNCHANGED runVars
    /\ UNCHANGED statVars

\* build_internal.rs:97-164  every .so file found in the working directory is
\* copied to the workspace target directory; finding none ends the process.
CopyArtifacts ==
    /\ \E p \in DOMAIN builds :
          /\ builds[p].pc = "built"
          /\ LET found == {f.so : f \in {g \in files : g.dir = builds[p].temp_dir}}
             IN builds' = [builds EXCEPT
                              ![p].copied = found,
                              ![p].pc = IF found = {} THEN "exit" ELSE "done"]
    /\ UNCHANGED files
    /\ UNCHANGED runVars
    /\ UNCHANGED statVars

NextBuild ==
    \/ CreateBuildDir
    \/ CargoClean
    \/ CargoBuildSbf
    \/ CopyArtifacts

SpecBuild == InitBuild /\ [][NextBuild]_vars




(***************************************************************************)
(* Properties of a run (specification Spec).                               *)
(***************************************************************************)
\* Positions of the call log holding operation `op`.
Idx(op) == {k \in 1..Len(calls) : calls[k].op = op}

\* The run's states in their order.
Successor ==
    {<<"Uninitialized", "EnvironmentReady">>,
     <<"EnvironmentReady", "ContextDiscovered">>,
     <<"ContextDiscovered", "Measuring">>,
     <<"Measuring", "Measuring">>,
     <<"Measuring", "Completed">>}

Aborts == {<<"EnvironmentReady", "Failed">>, <<"ContextDiscovered", "Failed">>,
           <<"Measuring", "Failed">>}

\* The simulate call happened at most once and before every execute call;
\* once discovery is over it happened exactly once.
DiscoveryOnceAndFirst ==
    /\ Cardinality(Idx("simulate_transaction")) <= 1
    /\ \A k \in Idx("send_transaction") :
          \E j \in Idx("simulate_transaction") : j < k
    /\ pc \in {"ContextDiscovered", "Measuring", "Completed"}
          => Cardinality(Idx("simulate_transaction")) = 1

\* C1: every step of a run leads to the next state of Uninitialized,
\* EnvironmentReady, ContextDiscovered, Measuring(1..N), Completed (or aborts
\* to Failed); Measuring(i) is followed by Measuring(i+1) and Completed
\* follows Measuring(N) only; the simulate call happens exactly once and
\* before the first execute call.
C1_StateOrder ==
    [][ /\ \/ <<pc, pc'>> \in Successor \cup Aborts
           \/ pc' = pc /\ pc # "Measuring"
        /\ pc' = "Measuring" => i' = i + 1 /\ i' <= samples
        /\ pc = "ContextDiscovered" /\ pc' = "Measuring" => i' = 1
        /\ pc' = "Completed" => i = samples /\ samples >= 1
        /\ DiscoveryOnceAndFirst' ]_vars

C1_Witness ==
    /\ pc = "Completed"
    /\ samples >= 2
    /\ i = samples
    /\ Cardinality(Idx("simulate_transaction")) = 1
    /\ Cardinality(Idx("send_transaction")) = samples

\* C2: setup_svm is called exactly once and is the first call of the run;
\* every later call acts on that one instance, each call starts from the
\* committed state the previous call left, and each execute pass starts from
\* the state committed by the execute pass before it.
C2_OneEnvironment ==
    pc # "Uninitialized" =>
        /\ Cardinality(Idx("setup_svm")) = 1
        /\ calls[1].op = "setup_svm"
        /\ svm.instance = calls[1].inst
        /\ \A k \in 1..Len(calls) : calls[k].inst = calls[1].inst
        /\ \A k \in 1..(Len(calls) - 1) : calls[k + 1].pre = calls[k].post
        /\ \A k, l \in Idx("send_transaction") :
              (k < l /\ \A m \in Idx("send_transaction") : ~(k < m /\ m < l))
                  => calls[l].pre = calls[k].post
        /\ Committed(svm) = calls[Len(calls)].post

C2_Witness ==
    /\ pc = "Completed"
    /\ Cardinality(Idx("send_transaction")) >= 2
    /\ \E k \in Idx("send_transaction") : calls[k].pre # calls[1].post

\* C3: a completed run requested with N passes reports sample_size = N: N
\* execute calls each gave one sample, the one simulate call gave none.
C3_SampleSize ==
    pc = "Completed" =>
        /\ result[1].cu_estimate.sample_size = samples
        /\ Len(cu_measurements) = samples
        /\ Cardinality(Idx("send_transaction")) = samples
        /\ Cardinality(Idx("simulate_transaction")) = 1
        /\ Cardinality(Idx("setup_svm")) = 1

C3_Witness ==
    /\ pc = "Completed"
    /\ samples >= 2
    /\ result[1].cu_estimate.sample_size = samples
    /\ Cardinality(Idx("simulate_transaction")) = 1

\* C4: discovery never calls execute, its simulate call leaves the committed
\* account state as it found it, and the first measurement pass starts from
\* the committed state left by setup.
C4_DiscoveryCommitsNothing ==
    /\ \A k \in Idx("simulate_transaction") : calls[k].post = calls[k].pre
    /\ pc \in {"EnvironmentReady", "ContextDiscovered"} =>
          /\ Idx("send_transaction") = {}
          /\ Committed(svm) = calls[1].post
    /\ \A k \in Idx("send_transaction") :
          (\A m \in Idx("send_transaction") : k <= m) => calls[k].pre = calls[1].post

C4_Witness ==
    /\ pc = "Measuring"
    /\ i = 1
    /\ \E k \in Idx("simulate_transaction") : calls[k].ok
    /\ \E k \in Idx("send_transaction") :
          calls[k].ok /\ calls[k].pre = calls[1].post /\ calls[k].post # calls[k].pre

\* C5: a failed execute pass is the last call of the run: the run is in the
\* terminal Failed state, the pass is not retried, no later pass runs, and
\* no result exists, whatever samples were collected before.
C5_ExecuteFailureIsFatal ==
    \A k \in Idx("send_transaction") :
        ~calls[k].ok =>
            /\ k = Len(calls)
            /\ pc = "Failed"
            /\ result = <<>>
            /\ Len(cu_measurements) = Cardinality(Idx("send_transaction")) - 1

C5_Witness ==
    /\ pc = "Failed"
    /\ Len(cu_measurements) >= 1
    /\ calls[Len(calls)].op = "send_transaction"
    /\ ~calls[Len(calls)].ok

\* C6: a failed simulate call is the last call of the run: simulate is not
\* called again, no execute call follows, and no result exists.
C6_SimulateFailureIsFatal ==
    \A k \in Idx("simulate_transaction") :
        ~calls[k].ok =>
            /\ k = Len(calls)
            /\ pc = "Failed"
            /\ Idx("send_transaction") = {}
            /\ Cardinality(Idx("simulate_transaction")) = 1
            /\ result = <<>>
            /\ execution_context = <<>>

C6_Witness ==
    /\ pc = "Failed"
    /\ samples >= 1
    /\ calls[Len(calls)].op = "simulate_transaction"
    /\ ~calls[Len(calls)].ok

\* C7: a run requested with zero samples makes no call at all on the
\* benchmark or the environment: no setup_svm, no work-builder, no
\* block-reference refresh, no simulate, no execute.
C7_ZeroSamplesNoEnvironmentWork ==
    samples = 0 => calls = <<>>

\* C8: an instruction benchmark whose build_instruction yields no signer
\* never reaches setup_svm, the block-reference refresh, simulate or execute.
C8_ZeroSignersNoEnvironmentWork ==
    (benchmark.kind = "instruction" /\ benchmark.signers = 0) =>
        \A k \in 1..Len(calls) :
            calls[k].op \notin {"setup_svm", "expire_blockhash",
                                "simulate_transaction", "send_transaction"}

\* C9: from discovery on, the execution context is the one extracted from the
\* single simulate call (its logs, cost, nested-call records, and the slot and
\* block reference current at that call), and the returned result carries it
\* unchanged by the measurement passes.
C9_ContextFromDiscovery ==
    pc \in {"ContextDiscovered", "Measuring", "Completed"} =>
        \A k \in Idx("simulate_transaction") :
            LET ctx == IF pc = "Completed" THEN result[1].execution_context
                       ELSE execution_context[1]
            IN /\ ctx = execution_context[1]
               /\ ctx.execution_stats.logs = calls[k].out.logs
               /\ ctx.execution_stats.simulated_cu = calls[k].out.cu
               /\ ctx.svm_context.latest_blockhash = calls[k].hash
               /\ ctx.svm_context.current_slot = svm.slot
               /\ benchmark.kind = "instruction" =>
                     ctx.program_context.cpi_count = Len(calls[k].out.inner)
               /\ benchmark.kind = "transaction" =>
                     ctx.workflow_context.total_cpi_calls = Len(calls[k].out.inner)

C9_Witness ==
    /\ pc = "Completed"
    /\ samples >= 2
    /\ \E k \in Idx("simulate_transaction") :
          /\ calls[k].hash # latest_blockhash(svm)
          /\ calls[k].out.cu # cu_measurements[Len(cu_measurements)]
          /\ result[1].execution_context.execution_stats.simulated_cu = calls[k].out.cu
(***************************************************************************)
(* Properties of the percentile estimator (specification SpecStats).       *)
(***************************************************************************)
\* v is the element of rank k (zero-based) of the samples in ascending order:
\* at most k samples are smaller and more than k samples are not larger.
HasRank(v, k) ==
    /\ Cardinality({j \in 1..Len(measurements) : measurements[j] < v}) <= k
    /\ k < Cardinality({j \in 1..Len(measurements) : measurements[j] <= v})

\* v is the sample of rank floor((N-1)*P/100).
IsPercentile(v, P) ==
    \E k \in 0..(Len(measurements) - 1) :
        /\ 100 * k <= (Len(measurements) - 1) * P
        /\ (Len(measurements) - 1) * P < 100 * (k + 1)
        /\ HasRank(v, k)

\* C10: for every non-empty sample list of size N, conservative, balanced,
\* safe and very_high are the samples of rank floor((N-1)*P/100) in ascending
\* order for P = 25, 50, 75, 95; with N = 1 every statistic is the single
\* sample; 1..=100 gives 25, 50, 75, 95 and [10,20,30,40] gives 10, 20, 30, 30.
C10_PercentileIndexing ==
    (stats # <<>> /\ Len(measurements) >= 1) =>
        LET st == stats[1].value
        IN /\ ~stats[1].panicked
           /\ IsPercentile(st.conservative, 25)
           /\ IsPercentile(st.balanced, 50)
           /\ IsPercentile(st.safe, 75)
           /\ IsPercentile(st.very_high, 95)
           /\ Len(measurements) = 1 =>
                 /\ st.min = measurements[1]
                 /\ st.conservative = measurements[1]
                 /\ st.balanced = measurements[1]
                 /\ st.safe = measurements[1]
                 /\ st.very_high = measurements[1]
                 /\ st.unsafe_max = measurements[1]
           /\ measurements = [k \in 1..100 |-> k] =>
                 <<st.conservative, st.balanced, st.safe, st.very_high>> = <<25, 50, 75, 95>>
           /\ measurements = <<10, 20, 30, 40>> =>
                 <<st.conservative, st.balanced, st.safe, st.very_high>> = <<10, 20, 30, 30>>

C10_Witness ==
    /\ stats # <<>>
    /\ measurements = <<100, 10, 50, 30, 80, 20, 90, 40, 70, 60>>
    /\ ~stats[1].panicked
    /\ stats[1].value.conservative = 30
    /\ stats[1].value.very_high = 90
\* The values of the sample list.
Samples == {measurements[j] : j \in 1..Len(measurements)}

\* C11: for every non-empty sample list, min is the smallest sample and
\* unsafe_max the largest.
C11_MinMax ==
    (stats # <<>> /\ Len(measurements) >= 1) =>
        /\ ~stats[1].panicked
        /\ stats[1].value.min \in Samples
        /\ \A v \in Samples : stats[1].value.min <= v
        /\ stats[1].value.unsafe_max \in Samples
        /\ \A v \in Samples : v <= stats[1].value.unsafe_max

C11_Witness ==
    /\ stats # <<>>
    /\ measurements = <<2, 3, 1>>
    /\ stats[1].value.min = 1
    /\ stats[1].value.unsafe_max = 3

\* C12: for every non-empty sample list, each of min, conservative, balanced,
\* safe, very_high and unsafe_max is one of the input samples.
C12_NoInterpolation ==
    (stats # <<>> /\ Len(measurements) >= 1) =>
        /\ ~stats[1].panicked
        /\ {stats[1].value.min, stats[1].value.conservative, stats[1].value.balanced,
            stats[1].value.safe, stats[1].value.very_high, stats[1].value.unsafe_max}
               \subseteq Samples

C12_Witness ==
    /\ stats # <<>>
    /\ measurements = <<1, 3>>
    /\ stats[1].value.balanced = 1
    /\ stats[1].value.safe = 1
    /\ stats[1].value.unsafe_max = 3

\* Rearrangements of a sample list: every permutation of a list within the
\* bound, the reversal and the adjacent swaps of a longer one.
Rearrangements(m) ==
    IF Len(m) <= MaxLen
    THEN {[k \in 1..Len(m) |-> m[f[k]]] : f \in Permutations(1..Len(m))}
    ELSE {[k \in 1..Len(m) |-> m[Len(m) + 1 - k]]}
         \cup {[k \in 1..Len(m) |-> IF k = n THEN m[n + 1]
                                    ELSE IF k = n + 1 THEN m[n] ELSE m[k]] :
               n \in 1..(Len(m) - 1)}

\* C13: a call of from_measurements leaves the caller's list as it was, and
\* every rearrangement of that list yields the same statistics record (all
\* six values and sample_size).
C13_PermutationInvariant ==
    [][ (stats = <<>> /\ stats' # <<>> /\ Len(measurements) >= 1) =>
            /\ measurements' = measurements
            /\ ~stats'[1].panicked
            /\ \A p \in Rearrangements(measurements) :
                  from_measurements(<<"instruction", "test">>, p) = stats'[1].value ]_vars

C13_Witness ==
    /\ stats # <<>>
    /\ measurements = <<3, 1, 2, 1>>
    /\ stats[1].value.min = 1
    /\ stats[1].value.safe = 2
    /\ stats[1].value.sample_size = 4
\* The field of a statistics record a named level stands for.
NamedField(st, kind) ==
    CASE kind = "Min" -> st.min
      [] kind = "Conservative" -> st.conservative
      [] kind = "Balanced" -> st.balanced
      [] kind = "Safe" -> st.safe
      [] kind = "VeryHigh" -> st.very_high
      [] kind = "UnsafeMax" -> st.unsafe_max

\* C14: get_cu_for_level(Custom(x)) returns x whatever the statistics record
\* holds, and each named level returns the field of its name.
C14_CustomAndNamedLevels ==
    ret # <<>> =>
        /\ arg.kind = "Custom" => ret[1] = arg.cu
        /\ arg.kind \in NamedLevels => ret[1] = NamedField(stats[1].value, arg.kind)

C14_Witness ==
    /\ ret # <<>>
    /\ arg.kind = "Custom"
    /\ arg.cu = 999
    /\ ret[1] = 999
    /\ stats[1].value.unsafe_max < 999

\* C15: get_cu_for_level(Multiplier(m)) is floor(balanced * m) for every
\* multiplier m >= 0 and every balanced value of the u64 range.
C15_MultiplierIsFloor ==
    (ret # <<>> /\ arg.kind = "Multiplier") =>
        ret[1] = (stats[1].value.balanced * arg.mult[1]) \div Pow2(arg.mult[2])
\* How often program p occurs in a list of invoked programs.
CountIn(seq, p) == Cardinality({k \in 1..Len(seq) : seq[k] = p})

\* The name an address book gives a program: its label, or else the
\* canonical string of the identifier.
Resolved(p, book) == IF p \in DOMAIN book THEN book[p] ELSE pubkey_to_string(p)

\* The invocation-count table of a workflow context, as program/count pairs.
UsageTable(ctx) == {<<e.program_id, e.instruction_count>> : e \in ctx.involved_programs}

\* The workflow of Scenario D: two top-level operations, the first one
\* addressing X, and nested calls addressing Y twice.
ScenarioD ==
    /\ ret # <<>>
    /\ ret[1].op = "workflow"
    /\ Len(arg.instructions) = 2
    /\ arg.instructions[1] = "X"
    /\ Flatten(arg.inner) = <<"Y", "Y">>

\* C16 (as stated): on a two-operation workflow whose first operation
\* addresses X and whose nested calls address Y twice, discovery yields
\* involved_programs = {X:1, Y:2} and a call sequence of length 3.
C16_ScenarioD ==
    ScenarioD =>
        /\ UsageTable(ret[1].value) = {<<"X", 1>>, <<"Y", 2>>}
        /\ Len(ret[1].value.cpi_sequence) = 3

\* C16 (amended): every top-level operation is counted and listed.  The call
\* sequence holds one entry per top-level operation, in transaction order,
\* and then one suffixed entry per nested call; each invoked program is
\* counted once per top-level operation and once per nested call.  On the
\* two-operation workflow X, Z with nested calls Y, Y this is
\* {X:1, Y:2, Z:1} and a sequence of length 4; {X:1, Y:2} and length 3 is what
\* the one-operation workflow X yields.
C16_WorkflowCounts ==
    (ret # <<>> /\ ret[1].op = "workflow") =>
        LET top == arg.instructions
            nested == Flatten(arg.inner)
            ctx == ret[1].value
        IN /\ Len(ctx.cpi_sequence) = Len(top) + Len(nested)
           /\ \A k \in 1..Len(top) : ctx.cpi_sequence[k] = Resolved(top[k], arg.book)
           /\ \A k \in 1..Len(nested) :
                 ctx.cpi_sequence[Len(top) + k] = Resolved(nested[k], arg.book) \o "_cpi"
           /\ UsageTable(ctx) =
                 {<<p, CountIn(top, p) + CountIn(nested, p)>> : p \in Invoked(arg)}
           /\ (top = <<"X", "Z">> /\ nested = <<"Y", "Y">>) =>
                 /\ UsageTable(ctx) = {<<"X", 1>>, <<"Y", 2>>, <<"Z", 1>>}
                 /\ Len(ctx.cpi_sequence) = 4
           /\ (top = <<"X">> /\ nested = <<"Y", "Y">>) =>
                 /\ UsageTable(ctx) = {<<"X", 1>>, <<"Y", 2>>}
                 /\ Len(ctx.cpi_sequence) = 3

C16_Witness ==
    /\ ScenarioD
    /\ arg.instructions = <<"X", "Z">>
    /\ arg.book = [p \in {"X"} |-> "program_X"]
    /\ ret[1].value.cpi_sequence = <<"program_X", "base58_Z", "base58_Y_cpi", "base58_Y_cpi">>
    /\ UsageTable(ret[1].value) = {<<"X", 1>>, <<"Y", 2>>, <<"Z", 1>>}

\* C17: program name resolution never fails.  For every program identifier
\* and every address book, the empty one included, lookup_program_name
\* returns the label when the identifier is in the book and the canonical
\* string of the identifier otherwise; neither extractor aborts on a program
\* the book does not know, and every name it reports is resolved that way.
C17_ResolutionNeverFails ==
    ret # <<>> =>
        /\ ~ret[1].panicked
        /\ ret[1].op = "lookup" => ret[1].value = Resolved(ret[1].program_id, arg.book)
        /\ ret[1].op = "program" =>
              ret[1].value.program_name = Resolved(ret[1].program_id, arg.book)
        /\ ret[1].op = "workflow" =>
              \A e \in ret[1].value.involved_programs :
                  e.program_name = Resolved(e.program_id, arg.book)

C17_Witness ==
    /\ ret # <<>>
    /\ ret[1].op = "workflow"
    /\ DOMAIN arg.book = {}
    /\ ~ret[1].panicked
    /\ arg.instructions = <<"X">>
    /\ Flatten(arg.inner) = <<"Y">>
    /\ ret[1].value.cpi_sequence = <<"base58_X", "base58_Y_cpi">>
\* The failure InstructionError(index, error) as a transaction result.
InstructionFailure(index, error) ==
    [ok |-> FALSE, err |-> [variant |-> "InstructionError", index |-> index, error |-> error]]

\* C18: demand_instruction_error_at_index(i, e, result) returns exactly when
\* result is the failure InstructionError(i, e) and panics in every other
\* case; demand_instruction_error(e, result) returns exactly for the failures
\* InstructionError(j, e), any j; so whatever the at-index form accepts, the
\* anywhere form accepts.
C18_DemandInstructionError ==
    ret # <<>> =>
        /\ ret[1].op = "at_index" =>
              (ret[1].outcome = "returns"
                  <=> arg.result = InstructionFailure(arg.expected_index, arg.expected_error))
        /\ ret[1].op = "anywhere" =>
              (ret[1].outcome = "returns"
                  <=> \E j \in 0..MaxIndex :
                          arg.result = InstructionFailure(j, arg.expected_error))
        /\ ret[1].outcome # "returns" =>
              ret[1].outcome \in {"panic: transaction succeeded",
                                  "panic: not an instruction error",
                                  "panic: different index", "panic: different error"}
        /\ (ret[1].op = "at_index" /\ ret[1].outcome = "returns") =>
              demand_instruction_error(arg.expected_error, arg.result) = "returns"

C18_Witness ==
    /\ ret # <<>>
    /\ ret[1].op = "at_index"
    /\ ret[1].outcome = "panic: different index"
    /\ arg.expected_index = 1
    /\ arg.result = InstructionFailure(0, arg.expected_error)
    /\ demand_instruction_error(arg.expected_error, arg.result) = "returns"
\* The log entries of the calls that submit a unit of work.
Submitted == Idx("simulate_transaction") \cup Idx("send_transaction")

\* No two submitted transactions carry the same block reference.
DistinctStamps ==
    \A k1, k2 \in Submitted : k1 # k2 => calls[k1].stamp # calls[k2].stamp

\* C19: in benchmark_instruction every pass re-invokes build_instruction,
\* invalidates the block reference before it stamps the transaction, and
\* submits the transaction to execute; no two transactions submitted in one
\* run, the discovery transaction included, carry the same block reference.
C19_FreshWorkPerPass ==
    benchmark.kind = "instruction" =>
        /\ \A k \in Submitted :
              /\ k >= 3
              /\ calls[k - 2].op = "build_instruction"
              /\ calls[k - 1].op = "expire_blockhash"
              /\ \A j \in Submitted : j < k => calls[k - 1].hash # calls[j].hash
              /\ calls[k].stamp = <<calls[k - 1].hash>>
        /\ Len(cu_measurements) = Cardinality({k \in Idx("send_transaction") : calls[k].ok})
        /\ Count("build_instruction") >= Count("simulate_transaction") + Count("send_transaction")
        /\ DistinctStamps

C19_Witness ==
    /\ benchmark.kind = "instruction"
    /\ pc = "Completed"
    /\ samples = 2
    /\ Count("build_instruction") = 3
    /\ {calls[k].stamp : k \in Submitted} = {<<1>>, <<2>>, <<3>>}

\* C20: in benchmark_transaction, for any benchmark definition, every pass
\* executes a transaction obtained from a build_transaction call of that pass
\* that carries a block reference freshly invalidated for the pass, different
\* from the one of the discovery pass and of every earlier pass.
C20_FreshBlockReferencePerPass ==
    benchmark.kind = "transaction" =>
        /\ \A k \in Idx("send_transaction") :
              /\ calls[k - 1].op = "build_transaction"
              /\ calls[k].stamp = <<calls[k - 1].hash>>
              /\ calls[k - 1].hash # calls[k - 2].hash
        /\ DistinctStamps
\* A transaction with its block reference blanked.
Unstamped(tx) == [tx EXCEPT !.recent_blockhash = 0]

\* C21: in instruction mode the discovery transaction and every measurement
\* transaction are structurally equivalent: each holds exactly one operation,
\* the builder's target instruction (no compute-budget operation added), has
\* the first signer as payer and is signed by the benchmark; they differ only
\* in the block reference.
C21_StructurallyEquivalent ==
    benchmark.kind = "instruction" =>
        /\ \A k \in Submitted :
              LET tx == calls[k].tx[1]
                  built == build_instruction(benchmark)
              IN /\ tx.instructions = <<built.target_ix>>
                 /\ tx.payer = built.signer_pubkeys[1]
                 /\ tx.signed
        /\ \A k1, k2 \in Submitted :
              k1 # k2 =>
                  /\ Unstamped(calls[k1].tx[1]) = Unstamped(calls[k2].tx[1])
                  /\ calls[k1].tx[1].recent_blockhash # calls[k2].tx[1].recent_blockhash

C21_Witness ==
    /\ benchmark.kind = "instruction"
    /\ benchmark.signers = 2
    /\ Count("simulate_transaction") = 1
    /\ Count("send_transaction") = 2
    /\ \A k \in Submitted : calls[k].tx[1].instructions = <<"X">> /\ calls[k].tx[1].payer = 1
    /\ Cardinality({calls[k].tx[1] : k \in Submitted}) = 3
\* The entries of a call sequence that carry the nested marker.
NestedMarked(seq) == {k \in 1..Len(seq) : \E p \in Programs, b \in AddressBooks :
                                             seq[k] = Resolved(p, b) \o "_cpi"}

\* C22: in transaction-mode discovery cpi_sequence is the display names of
\* the top-level operations in transaction order, then the display names of
\* the simulated nested calls in simulation order, each with the suffix
\* "_cpi"; no nested entry precedes a top-level entry.
C22_CallSequenceOrder ==
    (ret # <<>> /\ ret[1].op = "workflow") =>
        LET seq == ret[1].value.cpi_sequence
            names == [k \in 1..Len(arg.instructions) |->
                          Resolved(arg.instructions[k], arg.book)]
            marked == [k \in 1..Len(Flatten(arg.inner)) |->
                          Resolved(Flatten(arg.inner)[k], arg.book) \o "_cpi"]
        IN /\ seq = names \o marked
           /\ NestedMarked(seq) = Len(arg.instructions) + 1 .. Len(seq)

C22_Witness ==
    /\ ret # <<>>
    /\ ret[1].op = "workflow"
    /\ arg.instructions = <<"Z", "X">>
    /\ arg.inner = <<<<"Y">>, <<"Z">>>>
    /\ ret[1].value.cpi_sequence = <<"base58_Z", "program_X", "base58_Y_cpi", "base58_Z_cpi">>

\* C23: in transaction-mode discovery total_cpi_calls is the total number of
\* simulated nested calls, the number of nested-marked entries of
\* cpi_sequence, whatever the shape of the nested-call records.
C23_TotalCpiCalls ==
    (ret # <<>> /\ ret[1].op = "workflow") =>
        /\ ret[1].value.total_cpi_calls = Len(Flatten(arg.inner))
        /\ ret[1].value.total_cpi_calls = Cardinality(NestedMarked(ret[1].value.cpi_sequence))

\* C24: in instruction-mode discovery the ProgramContext holds the program
\* the single operation addresses, its resolved display name and a cpi_count
\* equal to the number of nested calls the simulation reports; ExecutionStats
\* holds the simulation's log lines and cost unchanged.
C24_ProgramContext ==
    ret # <<>> =>
        /\ ret[1].op = "program" =>
              /\ ret[1].value.program_id = arg.instructions[1]
              /\ ret[1].value.program_name = Resolved(arg.instructions[1], arg.book)
              /\ ret[1].value.cpi_count = Len(Flatten(arg.inner))
        /\ ret[1].op = "stats" =>
              /\ ret[1].value.logs = ret[1].sim.logs
              /\ ret[1].value.simulated_cu = ret[1].sim.cu
\* The sum of instruction_count over a set of ProgramInfo entries.
RECURSIVE SumCounts(_)
SumCounts(entries) ==
    IF entries = {} THEN 0
    ELSE LET e == CHOOSE x \in entries : TRUE
         IN e.instruction_count + SumCounts(entries \ {e})

\* The number of nested calls in a list of nested-call lists.
RECURSIVE NestedCalls(_)
NestedCalls(inner) ==
    IF inner = <<>> THEN 0 ELSE Len(Head(inner)) + NestedCalls(Tail(inner))

\* C30: involved_programs has exactly one entry per distinct program invoked,
\* top-level or nested, and the sum of instruction_count over the entries
\* equals the length of cpi_sequence, which is the number of top-level
\* operations plus the number of simulated nested calls.
C30_UsageAccounting ==
    (ret # <<>> /\ ret[1].op = "workflow") =>
        LET ctx == ret[1].value
        IN /\ {e.program_id : e \in ctx.involved_programs} = Invoked(arg)
           /\ \A e1, e2 \in ctx.involved_programs :
                 e1.program_id = e2.program_id => e1 = e2
           /\ SumCounts(ctx.involved_programs) = Len(ctx.cpi_sequence)
           /\ Len(ctx.cpi_sequence) = Len(arg.instructions) + NestedCalls(arg.inner)

C30_Witness ==
    /\ ret # <<>>
    /\ ret[1].op = "workflow"
    /\ arg.instructions = <<"Y", "X">>
    /\ arg.inner = <<<<"Y", "Z">>>>
    /\ UsageTable(ret[1].value) = {<<"X", 1>>, <<"Y", 2>>, <<"Z", 1>>}
    /\ Len(ret[1].value.cpi_sequence) = 4
\* Both estimators have been applied to the sample list.
BothEstimated == stats # <<>> /\ ret # <<>> /\ arg.kind = "from_measurements"

\* C25: the two percentile-indexing formulas of the source, len*P/100
\* (mod.rs) and (len-1)*P/100 (estimate.rs), give different percentile
\* values on the same input at small N, [10,20,30,40] for one, while they
\* agree on min, unsafe_max and sample_size for every non-empty input.
C25_EstimatorsDiverge ==
    (BothEstimated /\ Len(measurements) >= 1) =>
        /\ ~stats[1].panicked
        /\ ~ret[1].panicked
        /\ ret[1].value.min = stats[1].value.min
        /\ ret[1].value.unsafe_max = stats[1].value.unsafe_max
        /\ ret[1].value.sample_size = stats[1].value.sample_size
        /\ measurements = <<10, 20, 30, 40>> =>
              /\ ret[1].value.conservative # stats[1].value.conservative
              /\ ret[1].value.balanced # stats[1].value.balanced
              /\ ret[1].value.safe # stats[1].value.safe
              /\ ret[1].value.very_high # stats[1].value.very_high

C25_Witness ==
    /\ BothEstimated
    /\ measurements = <<10, 20, 30, 40>>
    /\ <<ret[1].value.conservative, ret[1].value.balanced, ret[1].value.safe,
         ret[1].value.very_high>> = <<20, 30, 40, 40>>
    /\ <<stats[1].value.conservative, stats[1].value.balanced, stats[1].value.safe,
         stats[1].value.very_high>> = <<10, 20, 30, 30>>

\* C27: for every non-empty sample list the statistics of from_measurements
\* are ordered: min <= conservative <= balanced <= safe <= very_high <=
\* unsafe_max.
C27_StatisticsOrdered ==
    (stats # <<>> /\ Len(measurements) >= 1) =>
        /\ ~stats[1].panicked
        /\ stats[1].value.min <= stats[1].value.conservative
        /\ stats[1].value.conservative <= stats[1].value.balanced
        /\ stats[1].value.balanced <= stats[1].value.safe
        /\ stats[1].value.safe <= stats[1].value.very_high
        /\ stats[1].value.very_high <= stats[1].value.unsafe_max

C27_Witness ==
    /\ stats # <<>>
    /\ measurements = <<100, 10, 50, 30, 80, 20, 90, 40, 70, 60>>
    /\ stats[1].value.min < stats[1].value.conservative
    /\ stats[1].value.conservative < stats[1].value.balanced
    /\ stats[1].value.balanced < stats[1].value.safe
    /\ stats[1].value.safe < stats[1].value.very_high
    /\ stats[1].value.very_high < stats[1].value.unsafe_max

\* C28: for every sample list of size N >= 1 every percentile index of both
\* estimators, (N-1)*P/100 and N*P/100 with P in {25, 50, 75, 95}, lies in
\* 0..N-1, so neither from_measurements reads out of bounds on non-empty
\* input; on empty input each fails instead of returning statistics.
C28_IndexInBounds ==
    /\ \A N \in 1..MaxN, P \in Percentiles :
          /\ PercentileIndex(N, P) \in 0..(N - 1)
          /\ EstimateIndex(N, P) \in 0..(N - 1)
    /\ stats # <<>> => (stats[1].panicked <=> Len(measurements) = 0)
    /\ (ret # <<>> /\ arg.kind = "from_measurements") =>
          (ret[1].panicked <=> Len(measurements) = 0)

C28_Witness ==
    /\ BothEstimated
    /\ measurements = <<42>>
    /\ ~stats[1].panicked
    /\ ~ret[1].panicked
    /\ ret[1].value.very_high = 42
    /\ EstimateIndex(1, 95) = 0
\* C26: two concurrent invocations of build_solana_program_internal for
\* different programs never use the same build working directory, so the
\* clean or build step of one cannot remove or overwrite the artifacts of the
\* other: what a build has written is there until it is copied, and a build
\* copies its own artifact only.
C26_IsolatedBuildDirs ==
    \A p, q \in DOMAIN builds :
        (p # q /\ builds[p].program_path # builds[q].program_path) =>
            /\ (builds[p].pc # "start" /\ builds[q].pc # "start") =>
                  builds[p].temp_dir # builds[q].temp_dir
            /\ builds[p].pc = "built" =>
                  Artifact(builds[p].temp_dir, builds[p].program_path) \in files
            /\ builds[p].pc = "done" => builds[p].copied = {builds[p].program_path}
\* The log entries of the calls of the benchmark's work-builder.
Built == Idx("build_instruction") \cup Idx("build_transaction")

\* The costs the execute calls of the log reported, in the order of the log.
RECURSIVE ExecuteCosts(_)
ExecuteCosts(log) ==
    IF log = <<>> THEN <<>>
    ELSE IF Head(log).op = "send_transaction"
         THEN <<Head(log).out.cu>> \o ExecuteCosts(Tail(log))
         ELSE ExecuteCosts(Tail(log))

\* C29: in a completed run of either runner with N >= 1 samples the
\* work-builder is invoked exactly N + 1 times, simulate exactly once and
\* execute exactly N times, and the sample list holds the N execute costs in
\* pass order, none dropped or duplicated.
C29_CallCounts ==
    (pc = "Completed" /\ samples >= 1) =>
        /\ Cardinality(Built) = samples + 1
        /\ Count("simulate_transaction") = 1
        /\ Count("send_transaction") = samples
        /\ cu_measurements = ExecuteCosts(calls)
        /\ Len(cu_measurements) = samples

C29_Witness ==
    /\ pc = "Completed"
    /\ samples = 3
    /\ benchmark.kind = "transaction"
    /\ Cardinality(Built) = 4
    /\ cu_measurements = <<3, 1, 2>>
    /\ ExecuteCosts(calls) = <<3, 1, 2>>
====
